---- MODULE Spec2Model ----
(***************************************************************************)
(* A model of fastapi_sse_tools/fastapi_sse.py: the SSE event formatter    *)
(* (SSEEvent.format), the schema descriptor builder (sse_schema_for) and   *)
(* the response documentation assembler (generate_sse_response_schema).    *)
(*                                                                         *)
(* Python str values are TLA+ strings (Len, \o and SubSeq act on them      *)
(* character by character).  An Optional[T] value is a sequence of length  *)
(* at most one: None is <<>>, a set value v is <<v>>.  A dict is a         *)
(* function whose DOMAIN is the set of keys.                               *)
(***************************************************************************)
EXTENDS Integers, Sequences, FiniteSets, TLC

VARIABLES
    pc,                       \* position of the call being modelled
    self,                     \* SSEEvent.format: the event record
    text,                     \* SSEEvent.format: the returned string
    sent,                     \* the records written to a stream so far
    stream,                   \* the text of the stream so far
    args,                     \* the arguments the caller passed
    event_descriptions,       \* Optional[Dict[str, str]], rebound at line 84
    event_names,              \* Optional[Dict[Type, str]], rebound at line 87
    sse_config,               \* Optional[Dict[str, Any]], rebound at line 90
    examples,                 \* local: dict event name -> example instance
    event_type_descriptions,  \* local: list of description lines
    example_lines,            \* local: list of transcript lines
    ret                       \* the value returned by the call

vars == <<pc, self, text, sent, stream, args, event_descriptions,
          event_names, sse_config, examples, event_type_descriptions,
          example_lines, ret>>

-----------------------------------------------------------------------------
(* Bounds of the model *)

\* longest type list handed to generate_sse_response_schema
MaxModels == 3

\* longest type list handed to sse_schema_for
MaxSchemaModels == 3

\* most records written back-to-back to one stream
MaxStream == 2

-----------------------------------------------------------------------------
(* Python values *)

None == <<>>

Some(v) == <<v>>

\* truthiness of an Optional[str]: None and "" are falsy
TruthyStr(o) == o /= None /\ o[1] /= ""

\* dict.get(key, default)
Get(d, key, default) == IF key \in DOMAIN d THEN d[key] ELSE default

\* d[key] = value on a dict
Put(d, key, value) ==
    [k \in DOMAIN d \cup {key} |-> IF k = key THEN value ELSE d[k]]

EmptyDict == [k \in {} |-> None]

Min(S) == CHOOSE m \in S : \A n \in S : m <= n

Char(s, i) == SubSeq(s, i, i)

Digits == "0123456789"

\* str(n) of a non-negative int: its decimal digits
RECURSIVE Str(_)
Str(n) ==
    IF n < 10 THEN Char(Digits, n + 1)
    ELSE Str(n \div 10) \o Char(Digits, (n % 10) + 1)

\* sep.join(lines)
RECURSIVE Join(_, _)
Join(sep, lines) ==
    IF lines = <<>> THEN ""
    ELSE IF Len(lines) = 1 THEN lines[1]
    ELSE lines[1] \o sep \o Join(sep, Tail(lines))

\* s.split(sep) for a one-character separator
RECURSIVE Split(_, _)
Split(s, sep) ==
    LET at == {i \in 1..Len(s) : Char(s, i) = sep} IN
    IF at = {} THEN <<s>>
    ELSE LET i == Min(at) IN
         <<SubSeq(s, 1, i - 1)>> \o Split(SubSeq(s, i + 1, Len(s)), sep)

UpperLetters == "ABCDEFGHIJKLMNOPQRSTUVWXYZ"

LowerLetters == "abcdefghijklmnopqrstuvwxyz"

LowerChar(c) ==
    LET at == {i \in 1..Len(UpperLetters) : Char(UpperLetters, i) = c} IN
    IF at = {} THEN c ELSE Char(LowerLetters, Min(at))

\* s.lower()
RECURSIVE Lower(_)
Lower(s) ==
    IF s = "" THEN "" ELSE LowerChar(Char(s, 1)) \o Lower(SubSeq(s, 2, Len(s)))

-----------------------------------------------------------------------------
(* SSEEvent *)

\* the data line of format, dropped when data is falsy
format_data_if_truthy(ev) ==
    LET lines ==
          (IF TruthyStr(ev.comment) THEN <<": " \o ev.comment[1]>> ELSE <<>>)
       \o (IF ev.id /= None THEN <<"id: " \o ev.id[1]>> ELSE <<>>)
       \o (IF TruthyStr(ev.event) THEN <<"event: " \o ev.event[1]>> ELSE <<>>)
       \o (IF ev.retry /= None THEN <<"retry: " \o Str(ev.retry[1])>> ELSE <<>>)
       \o (IF ev.data /= "" THEN <<"data: " \o ev.data>> ELSE <<>>)
       \o <<"">>
    IN Join("\n", lines)

\* SSEEvent.format
format(ev) ==
    LET lines ==
          (IF TruthyStr(ev.comment) THEN <<": " \o ev.comment[1]>> ELSE <<>>)
       \o (IF ev.id /= None THEN <<"id: " \o ev.id[1]>> ELSE <<>>)
       \o (IF TruthyStr(ev.event) THEN <<"event: " \o ev.event[1]>> ELSE <<>>)
       \o (IF ev.retry /= None THEN <<"retry: " \o Str(ev.retry[1])>> ELSE <<>>)
       \o <<"data: " \o ev.data>>
       \o <<"">>
    IN Join("\n", lines)

\* SSEEvent(data, event, id, retry, comment)
SSEEvent(data, event, id, retry, comment) ==
    [data |-> data, event |-> event, id |-> id, retry |-> retry,
     comment |-> comment]

\* the event records handed to format
EventRecords ==
    { SSEEvent(d, e, i, r, c) :
        d \in {"", "x", "a\nb"},
        e \in {None, Some(""), Some("e"), Some("e\ndata: z")},
        i \in {None, Some(""), Some("7"), Some("7\n8")},
        r \in {None, Some(0), Some(3000)},
        c \in {None, Some(""), Some("c"), Some("c\ndata: z")} }

\* the event records written to a stream
StreamRecords ==
    { SSEEvent(d, e, i, None, c) :
        d \in {"x", "y"},
        e \in {None, Some("e")},
        i \in {None, Some("7")},
        c \in {None, Some("c")} }

-----------------------------------------------------------------------------
(* Payload types: what the code reads of a pydantic model class *)

\* a value held by a field: its kind and its JSON text
Value(kind, json) == [kind |-> kind, json |-> json]

\* a declared field (pydantic FieldInfo); default is the value an optional
\* field takes when it is not given
Field(name, annotation, required, default) ==
    [name |-> name, annotation |-> annotation, required |-> required,
     default |-> default]

\* class Ok(BaseModel): pass
ModelOk == [name |-> "Ok", fields |-> <<>>, validator_raises |-> FALSE]

\* class OK(BaseModel): message: str
ModelOK ==
    [name |-> "OK",
     fields |-> <<Field("message", "str", TRUE, None)>>,
     validator_raises |-> FALSE]

\* class Bad(BaseModel): no fields, and a validator that always raises
ModelBad == [name |-> "Bad", fields |-> <<>>, validator_raises |-> TRUE]

\* class Deep(BaseModel): x: Ok
ModelDeep ==
    [name |-> "Deep",
     fields |-> <<Field("x", "Ok", TRUE, None)>>,
     validator_raises |-> FALSE]

Models == {ModelOk, ModelOK, ModelBad, ModelDeep}

\* the lists of at most n payload types
ModelLists(n) == UNION { [1..k -> Models] : k \in 0..n }

\* model(**kwargs): the instance, or None when construction raises.  A
\* required field must be given and a given value must be of the declared
\* kind; the instance lists every field's name and JSON text.
Construct(model, kwargs) ==
    LET fs == model.fields
        ok == /\ ~model.validator_raises
              /\ \A i \in 1..Len(fs) :
                    /\ fs[i].required => fs[i].name \in DOMAIN kwargs
                    /\ fs[i].name \in DOMAIN kwargs
                         => kwargs[fs[i].name].kind = fs[i].annotation
    IN IF ~ok THEN None
       ELSE Some([cls |-> model.name,
                  values |-> [i \in 1..Len(fs) |->
                      <<fs[i].name,
                        IF fs[i].name \in DOMAIN kwargs
                        THEN kwargs[fs[i].name].json
                        ELSE fs[i].default[1].json>>]])

\* instance.model_dump_json(): single-line JSON text
model_dump_json(instance) ==
    "{" \o Join(",", [i \in 1..Len(instance.values) |->
            "\"" \o instance.values[i][1] \o "\":" \o instance.values[i][2]])
        \o "}"

\* _get_default_value_for_field
get_default_value_for_field(field_info) ==
    LET annotation == field_info.annotation IN
    CASE annotation = "str" -> Value("str", "\"example\"")
      [] annotation = "int" -> Value("int", "0")
      [] annotation = "float" -> Value("float", "0.0")
      [] annotation = "bool" -> Value("bool", "false")
      [] annotation = "list" -> Value("list", "[]")
      [] annotation = "dict" -> Value("dict", "{}")
      [] OTHER -> Value("str", "\"example_" \o annotation \o "\"")

\* create_example_factory(model_class, **field_values)
create_example_factory(model_class, field_values) ==
    [model_class |-> model_class, field_values |-> field_values]

\* factory(): the instance, or None when the call raises
CallFactory(factory) == Construct(factory.model_class, factory.field_values)

-----------------------------------------------------------------------------
(* sse_schema_for *)

Ref(model) == "$ref" :> ("#/components/schemas/" \o model.name)

\* the descriptor of sse_schema_for around the two reference lists
SchemaDescriptor(item_one_of, schema_one_of) ==
    [content |->
        ("text/event-stream" :>
            [itemSchema |-> [oneOf |-> item_one_of],
             schema |-> [oneOf |-> schema_one_of,
                         description |-> "Server-Sent Events stream"]])]

\* the list without the elements that repeat an earlier one
RECURSIVE Dedup(_)
Dedup(list) ==
    IF list = <<>> THEN <<>>
    ELSE LET front == Dedup(SubSeq(list, 1, Len(list) - 1))
             last == list[Len(list)]
         IN IF \E i \in 1..Len(front) : front[i] = last
            THEN front ELSE Append(front, last)

\* sse_schema_for listing each type once in the legacy schema list
sse_schema_for_dedup(models) ==
    LET one_of == [i \in 1..Len(models) |-> Ref(models[i])] IN
    SchemaDescriptor(one_of, Dedup(one_of))

\* sse_schema_for
sse_schema_for(models) ==
    LET one_of == [i \in 1..Len(models) |-> Ref(models[i])] IN
    SchemaDescriptor(one_of, one_of)

-----------------------------------------------------------------------------
(* generate_sse_response_schema *)

\* The backquote of the source's literals: a TLA+ string cannot hold that
\* character, so the apostrophe stands for it.
Backquote == "'"

Fence == Backquote \o Backquote \o Backquote

\* the description argument's default
DefaultDescription == "Server-Sent Events stream"

\* lines 86-87: the default event names
DefaultEventNames(models) ==
    [m \in {models[i] : i \in 1..Len(models)} |-> Lower(m.name)]

\* lines 97-125: the example of one model, or None when it is skipped
ExampleFor(model, factories) ==
    IF factories /= None /\ model \in DOMAIN factories[1]
    THEN CallFactory(factories[1][model])
    ELSE LET noarg == Construct(model, EmptyDict) IN
         IF noarg /= None THEN noarg
         ELSE LET req == {i \in 1..Len(model.fields) :
                            model.fields[i].required}
                  required_fields ==
                    [n \in {model.fields[i].name : i \in req} |->
                       LET i == CHOOSE j \in req : model.fields[j].name = n
                       IN get_default_value_for_field(model.fields[i])]
              IN IF req /= {} THEN Construct(model, required_fields)
                 ELSE None

\* lines 93-125 from the i-th model on: the examples dict, or a KeyError
\* raised by event_names[model]
RECURSIVE ExamplesFrom(_, _, _, _, _)
ExamplesFrom(i, models, names, factories, exs) ==
    IF i > Len(models) THEN [raised |-> FALSE, examples |-> exs]
    ELSE IF models[i] \notin DOMAIN names
         THEN [raised |-> TRUE, examples |-> exs]
    ELSE LET ex == ExampleFor(models[i], factories) IN
         ExamplesFrom(i + 1, models, names, factories,
             IF ex = None THEN exs ELSE Put(exs, names[models[i]], ex[1]))

\* lines 128-132
EventTypeDescriptions(models, names, descriptions) ==
    [i \in 1..Len(models) |->
        LET event_name == names[models[i]]
            desc == Get(descriptions, event_name, models[i].name \o " events")
        IN "- " \o Backquote \o event_name \o Backquote \o ": " \o desc]

\* event_id counting every model of the list
NextEventIdEveryModel(event_id, emitted) == event_id + 1

\* lines 140 and 151: event_id after a model of the list
NextEventId(event_id, emitted) == IF emitted THEN event_id + 1 ELSE event_id

\* lines 141-149: the event of the model with this event name
ExampleEvent(event_name, exs, config, event_id) ==
    SSEEvent(model_dump_json(exs[event_name]),
             Some(event_name),
             IF Get(config, "include_ids", FALSE)
                 THEN Some(Str(event_id)) ELSE None,
             IF event_id = 1 /\ "retry_interval" \in DOMAIN config
                 THEN Some(config["retry_interval"]) ELSE None,
             IF event_id = 1 /\ "comment" \in DOMAIN config
                 THEN Some(config["comment"]) ELSE None)

\* lines 135-151 from the i-th model on
RECURSIVE ExampleLinesFrom(_, _, _, _, _, _, _)
ExampleLinesFrom(i, models, names, exs, config, event_id, lines) ==
    IF i > Len(models) THEN lines
    ELSE LET event_name == names[models[i]]
             emitted == event_name \in DOMAIN exs
         IN ExampleLinesFrom(i + 1, models, names, exs, config,
                NextEventId(event_id, emitted),
                IF emitted
                THEN lines \o Split(format(ExampleEvent(event_name, exs,
                                                 config, event_id)), "\n")
                ELSE lines)

\* lines 153-169
FullDescription(description, type_descriptions, config, lines) ==
       description \o "\n\n"
    \o "Event Types:\n" \o Join("\n", type_descriptions) \o "\n\n"
    \o "Each event data field contains JSON matching one of the response schemas.\n\n"
    \o (IF Get(config, "include_ids", FALSE)
        THEN "Events include sequential IDs for client-side tracking.\n\n"
        ELSE "")
    \o (IF "retry_interval" \in DOMAIN config /\ config["retry_interval"] /= 0
        THEN "Client retry interval: " \o Str(config["retry_interval"])
             \o "ms\n\n"
        ELSE "")
    \o "Example:\n\n" \o Fence \o "\n" \o Join("\n", lines) \o Fence

-----------------------------------------------------------------------------
(* The arguments of the calls *)

\* an sse_config dict from its three optional keys
ConfigDict(include_ids, retry_interval, comment) ==
    LET keys == (IF include_ids /= None THEN {"include_ids"} ELSE {})
           \cup (IF retry_interval /= None THEN {"retry_interval"} ELSE {})
           \cup (IF comment /= None THEN {"comment"} ELSE {})
    IN [k \in keys |->
          CASE k = "include_ids" -> include_ids[1]
            [] k = "retry_interval" -> retry_interval[1]
            [] k = "comment" -> comment[1]]

SseConfigs ==
    {None} \cup
    { Some(ConfigDict(i, r, c)) :
        i \in {None, Some(FALSE), Some(TRUE)},
        r \in {None, Some(0), Some(3000)},
        c \in {None, Some(""), Some("hi")} }

\* no mapping; one that names only Ok; one with equal values; one with
\* distinct values
EventNameMaps ==
    { None,
      Some(ModelOk :> "evt"),
      Some([m \in Models |-> "evt"]),
      Some(ModelOk :> "a" @@ ModelOK :> "b" @@ ModelBad :> "c"
           @@ ModelDeep :> "d") }

\* no factories; a factory of OK that lacks the required field, so raises;
\* factories of OK and Deep that construct
FactoryMaps ==
    { None,
      Some(ModelOK :> create_example_factory(ModelOK, EmptyDict)),
      Some(ModelOK :> create_example_factory(ModelOK,
                          "message" :> Value("str", "\"hi\""))
           @@ ModelDeep :> create_example_factory(ModelDeep,
                          "x" :> Value("Ok", "{}"))) }

EventDescriptionMaps == {None, Some("ok" :> "All good")}

GenerateArgs ==
    [event_models : ModelLists(MaxModels),
     event_descriptions : EventDescriptionMaps,
     example_factories : FactoryMaps,
     event_names : EventNameMaps,
     sse_config : SseConfigs]

NoArgs == [event_models |-> <<>>]

-----------------------------------------------------------------------------
(* SSEEvent.format called on one record *)

InitFormat ==
    /\ pc = "format"
    /\ self \in EventRecords
    /\ text = None
    /\ sent = <<>> /\ stream = ""
    /\ args = NoArgs
    /\ event_descriptions = None /\ event_names = None /\ sse_config = None
    /\ examples = EmptyDict
    /\ event_type_descriptions = <<>> /\ example_lines = <<>>
    /\ ret = None

Format ==
    /\ pc = "format"
    /\ text' = Some(format(self))
    /\ pc' = "formatted"
    /\ UNCHANGED <<self, sent, stream, args, event_descriptions, event_names,
                   sse_config, examples, event_type_descriptions,
                   example_lines, ret>>

NextFormat == Format

SpecFormat == InitFormat /\ [][NextFormat]_vars

-----------------------------------------------------------------------------
(* Records formatted and written back-to-back to one stream *)

InitStream ==
    /\ pc = "stream"
    /\ self = None /\ text = None
    /\ sent = <<>> /\ stream = ""
    /\ args = NoArgs
    /\ event_descriptions = None /\ event_names = None /\ sse_config = None
    /\ examples = EmptyDict
    /\ event_type_descriptions = <<>> /\ example_lines = <<>>
    /\ ret = None

Write ==
    /\ pc = "stream"
    /\ Len(sent) < MaxStream
    /\ \E ev \in StreamRecords :
         /\ self' = Some(ev)
         /\ text' = Some(format(ev))
         /\ sent' = Append(sent, ev)
         /\ stream' = stream \o format(ev)
    /\ UNCHANGED <<pc, args, event_descriptions, event_names, sse_config,
                   examples, event_type_descriptions, example_lines, ret>>

NextStream == Write

SpecStream == InitStream /\ [][NextStream]_vars

-----------------------------------------------------------------------------
(* sse_schema_for called on one type list *)

InitSchema ==
    /\ pc = "sse_schema_for"
    /\ self = None /\ text = None
    /\ sent = <<>> /\ stream = ""
    /\ args \in [event_models : ModelLists(MaxSchemaModels)]
    /\ event_descriptions = None /\ event_names = None /\ sse_config = None
    /\ examples = EmptyDict
    /\ event_type_descriptions = <<>> /\ example_lines = <<>>
    /\ ret = None

SchemaFor ==
    /\ pc = "sse_schema_for"
    /\ ret' = Some(sse_schema_for(args.event_models))
    /\ pc' = "schema_returned"
    /\ UNCHANGED <<self, text, sent, stream, args, event_descriptions,
                   event_names, sse_config, examples,
                   event_type_descriptions, example_lines>>

NextSchema == SchemaFor

SpecSchema == InitSchema /\ [][NextSchema]_vars

-----------------------------------------------------------------------------
(* generate_sse_response_schema called on one set of arguments *)

InitGenerate ==
    /\ pc = "resolve"
    /\ self = None /\ text = None
    /\ sent = <<>> /\ stream = ""
    /\ args \in GenerateArgs
    /\ event_descriptions = args.event_descriptions
    /\ event_names = args.event_names
    /\ sse_config = args.sse_config
    /\ examples = EmptyDict
    /\ event_type_descriptions = <<>> /\ example_lines = <<>>
    /\ ret = None

\* lines 83-90
ResolveDefaults ==
    /\ pc = "resolve"
    /\ event_descriptions' =
         IF event_descriptions = None THEN EmptyDict
         ELSE event_descriptions[1]
    /\ event_names' =
         IF event_names = None THEN DefaultEventNames(args.event_models)
         ELSE event_names[1]
    /\ sse_config' = IF sse_config = None THEN EmptyDict ELSE sse_config[1]
    /\ pc' = "examples"
    /\ UNCHANGED <<self, text, sent, stream, args, examples,
                   event_type_descriptions, example_lines, ret>>

\* lines 92-125; a KeyError of event_names[model] leaves the call
BuildExamples ==
    /\ pc = "examples"
    /\ LET r == ExamplesFrom(1, args.event_models, event_names,
                             args.example_factories, EmptyDict)
       IN /\ examples' = r.examples
          /\ pc' = IF r.raised THEN "raised" ELSE "descriptions"
    /\ UNCHANGED <<self, text, sent, stream, args, event_descriptions,
                   event_names, sse_config, event_type_descriptions,
                   example_lines, ret>>

\* lines 127-132
BuildEventTypeDescriptions ==
    /\ pc = "descriptions"
    /\ event_type_descriptions' =
         EventTypeDescriptions(args.event_models, event_names,
                               event_descriptions)
    /\ pc' = "example_stream"
    /\ UNCHANGED <<self, text, sent, stream, args, event_descriptions,
                   event_names, sse_config, examples, example_lines, ret>>

\* lines 134-151
BuildExampleLines ==
    /\ pc = "example_stream"
    /\ example_lines' =
         ExampleLinesFrom(1, args.event_models, event_names, examples,
                          sse_config, 1, <<>>)
    /\ pc' = "assemble"
    /\ UNCHANGED <<self, text, sent, stream, args, event_descriptions,
                   event_names, sse_config, examples,
                   event_type_descriptions, ret>>

\* lines 153-176
Return ==
    /\ pc = "assemble"
    /\ ret' = Some(200 :>
                (sse_schema_for(args.event_models)
                 @@ [description |->
                       FullDescription(DefaultDescription,
                           event_type_descriptions, sse_config,
                           example_lines)]))
    /\ pc' = "returned"
    /\ UNCHANGED <<self, text, sent, stream, args, event_descriptions,
                   event_names, sse_config, examples,
                   event_type_descriptions, example_lines>>

NextGenerate ==
    \/ ResolveDefaults
    \/ BuildExamples
    \/ BuildEventTypeDescriptions
    \/ BuildExampleLines
    \/ Return

SpecGenerate == InitGenerate /\ [][NextGenerate]_vars

-----------------------------------------------------------------------------
(* Any of the calls *)

Init == InitFormat \/ InitStream \/ InitSchema \/ InitGenerate

Next == NextFormat \/ NextStream \/ NextSchema \/ NextGenerate

Spec == Init /\ [][Next]_vars

-----------------------------------------------------------------------------
(* Reading the outputs back *)

\* s starts with p
StartsWith(s, p) == Len(s) >= Len(p) /\ SubSeq(s, 1, Len(p)) = p

\* p occurs in s
Contains(s, p) ==
    \E i \in 1..(Len(s) - Len(p) + 1) : SubSeq(s, i, i + Len(p) - 1) = p

\* the elements of a list that are not the empty string
NonEmpty(lines) == LET Keep(l) == l /= "" IN SelectSeq(lines, Keep)

\* the lines that start with a prefix
LinesWith(lines, prefix) ==
    LET Keep(l) == StartsWith(l, prefix) IN SelectSeq(lines, Keep)

DropPrefix(s, n) == SubSeq(s, n + 1, Len(s))

HasLineBreak(s) == \E i \in 1..Len(s) : Char(s, i) = "\n"

\* none of the record's text fields holds a line break
SingleLine(ev) ==
    /\ ~HasLineBreak(ev.data)
    /\ \A o \in {ev.event, ev.id, ev.comment} :
         o /= None => ~HasLineBreak(o[1])

\* the transcript's events: the runs of lines each ended by an empty line
RECURSIVE EventsOf(_)
EventsOf(lines) ==
    LET at == {i \in 1..Len(lines) : lines[i] = ""} IN
    IF lines = <<>> THEN <<>>
    ELSE IF at = {} THEN <<lines>>
    ELSE LET i == Min(at) IN
         <<SubSeq(lines, 1, i - 1)>>
         \o EventsOf(SubSeq(lines, i + 1, Len(lines)))

\* An SSE parser over the complete lines of a stream (the text after the
\* last line break is an unfinished line): a blank line dispatches the
\* event gathered so far if it has data, a line starting with a colon is a
\* comment, any other line is field[: value].
RECURSIVE ParseLines(_, _, _, _)
ParseLines(lines, type, data, events) ==
    IF lines = <<>> THEN events
    ELSE LET l == lines[1]
             colon == {i \in 1..Len(l) : Char(l, i) = ":"}
             name == IF colon = {} THEN l ELSE SubSeq(l, 1, Min(colon) - 1)
             raw == IF colon = {} THEN ""
                    ELSE SubSeq(l, Min(colon) + 1, Len(l))
             value == IF StartsWith(raw, " ") THEN DropPrefix(raw, 1)
                      ELSE raw
         IN IF l = ""
            THEN ParseLines(Tail(lines), "message", <<>>,
                     IF data = <<>> THEN events
                     ELSE Append(events,
                              [event |-> type, data |-> Join("\n", data)]))
            ELSE IF StartsWith(l, ":")
            THEN ParseLines(Tail(lines), type, data, events)
            ELSE IF name = "event"
            THEN ParseLines(Tail(lines), value, data, events)
            ELSE IF name = "data"
            THEN ParseLines(Tail(lines), type, Append(data, value), events)
            ELSE ParseLines(Tail(lines), type, data, events)

SSEParse(s) ==
    LET split == Split(s, "\n") IN
    ParseLines(SubSeq(split, 1, Len(split) - 1), "message", <<>>, <<>>)

\* the text ends with a line break followed by exactly one empty line
EndsWithOneBlankLine(s) ==
    /\ Len(s) >= 2
    /\ SubSeq(s, Len(s) - 1, Len(s)) = "\n\n"
    /\ Len(s) >= 3 => Char(s, Len(s) - 2) /= "\n"

\* the arguments of the call of generate_sse_response_schema
GivenModels == args.event_models

GivenConfig == IF args.sse_config = None THEN EmptyDict ELSE args.sse_config[1]

GivenIncludeIds == Get(GivenConfig, "include_ids", FALSE)

\* the label the documentation promises for a type
PromisedLabel(model) ==
    IF args.event_names /= None /\ model \in DOMAIN args.event_names[1]
    THEN args.event_names[1][model]
    ELSE Lower(model.name)

\* the positions of the list whose example can be obtained
Obtainable == {i \in 1..Len(GivenModels) :
                 ExampleFor(GivenModels[i], args.example_factories) /= None}

\* the positions of a set, in increasing order
RECURSIVE Ascending(_)
Ascending(S) ==
    IF S = {} THEN <<>> ELSE <<Min(S)>> \o Ascending(S \ {Min(S)})

\* the transcript's events are those of these positions of the list, in
\* order: the event line names the type's label and the data line holds the
\* JSON text of the type's own example
TranscriptIsOf(positions) ==
    LET E == EventsOf(example_lines)
        at == Ascending(positions)
    IN /\ Len(E) = Len(at)
       /\ \A k \in 1..Len(E) :
            LET m == GivenModels[at[k]] IN
            /\ LinesWith(E[k], "event:") = <<"event: " \o PromisedLabel(m)>>
            /\ LinesWith(E[k], "data:") =
                 <<"data: " \o model_dump_json(
                       ExampleFor(m, args.example_factories)[1])>>

OneOfLists ==
    LET c == ret[1][200]["content"]["text/event-stream"] IN
    <<c["itemSchema"]["oneOf"], c["schema"]["oneOf"]>>

Description == ret[1][200]["description"]

-----------------------------------------------------------------------------
(* The claims *)

\* C1: for every record (here: whose text fields hold no line break), the
\* non-empty lines of format's output are the comment, id, event, retry and
\* data lines in that order, an optional field's line being there exactly
\* when the field is not None, whatever its value.
C1_LinesOfSetFields ==
    pc = "formatted" /\ SingleLine(self) =>
        NonEmpty(Split(text[1], "\n")) =
              (IF self.comment /= None THEN <<": " \o self.comment[1]>>
               ELSE <<>>)
           \o (IF self.id /= None THEN <<"id: " \o self.id[1]>> ELSE <<>>)
           \o (IF self.event /= None THEN <<"event: " \o self.event[1]>>
               ELSE <<>>)
           \o (IF self.retry /= None
               THEN <<"retry: " \o ToString(self.retry[1])>> ELSE <<>>)
           \o <<"data: " \o self.data>>

\* C2: the text format returns ends with exactly one blank line after the
\* data line's line break, so the records written back-to-back to a stream
\* are read by an SSE parser as one event per record, in order, each with
\* its record's data.
C2_BlankLineEndsEvent ==
    sent /= <<>> =>
        /\ EndsWithOneBlankLine(text[1])
        /\ LET got == SSEParse(stream) IN
           /\ Len(got) = Len(sent)
           /\ \A k \in 1..Len(sent) : got[k].data = sent[k].data

\* the output of format has exactly one line starting with data:, and the
\* text after "data: " on it is the record's data
OneDataLine ==
    LET dl == LinesWith(Split(text[1], "\n"), "data:") IN
    /\ Len(dl) = 1
    /\ StartsWith(dl[1], "data: ")
    /\ DropPrefix(dl[1], 6) = self.data

\* C3 as stated: for every record, also one whose data, event, id or
\* comment holds a line break, format's output has exactly one data: line
\* and its suffix is the record's data verbatim.
C3_OneDataLineAnyRecord == pc = "formatted" => OneDataLine

\* C3, amended: for every record none of whose text fields holds a line
\* break, format's output has exactly one data: line and its suffix is the
\* record's data verbatim.
C3_OneDataLineSingleLine == pc = "formatted" /\ SingleLine(self) => OneDataLine

C3_Witness ==
    /\ pc = "formatted"
    /\ SingleLine(self)
    /\ self.data = "x"
    /\ self.comment = Some("c") /\ self.id = Some("7")
    /\ self.event = Some("e") /\ self.retry = Some(0)

\* C4: each payload type of the list is referenced at most once in each
\* oneOf list and has at most one event in the transcript; the transcript's
\* events follow the list's order and each holds the example of the type at
\* its position.
C4_TypesOnceInOrder ==
    pc = "returned" =>
        /\ \A n \in 1..2 : \A i, j \in 1..Len(OneOfLists[n]) :
             OneOfLists[n][i] = OneOfLists[n][j] => i = j
        /\ \E S \in SUBSET (1..Len(GivenModels)) :
             /\ \A i, j \in S : GivenModels[i] = GivenModels[j] => i = j
             /\ TranscriptIsOf(S)

\* C5: the retry: line and the comment line, when configured, are in the
\* first emitted event of the transcript and in no later one, whichever
\* types were skipped.
C5_RetryAndCommentOnFirst ==
    pc = "returned" =>
        LET E == EventsOf(example_lines) IN
        \A k \in 1..Len(E) :
          /\ LinesWith(E[k], "retry:") =
               IF k = 1 /\ "retry_interval" \in DOMAIN GivenConfig
               THEN <<"retry: " \o ToString(GivenConfig["retry_interval"])>>
               ELSE <<>>
          /\ LinesWith(E[k], ":") =
               IF k = 1 /\ "comment" \in DOMAIN GivenConfig
               THEN <<": " \o GivenConfig["comment"]>>
               ELSE <<>>

\* C6: without include_ids no event of the transcript has an id: line; with
\* include_ids the k-th event of the transcript has the one id line
\* "id: k", so the ids count the emitted events only.
C6_SequentialIds ==
    pc = "returned" =>
        LET E == EventsOf(example_lines) IN
        \A k \in 1..Len(E) :
            LinesWith(E[k], "id:") =
                IF GivenIncludeIds THEN <<"id: " \o ToString(k)>> ELSE <<>>

C6_Witness ==
    /\ pc = "returned"
    /\ GivenIncludeIds
    /\ Len(GivenModels) = 3
    /\ Obtainable = {1, 3}
    /\ GivenModels[1] /= GivenModels[3]
    /\ LET E == EventsOf(example_lines) IN
       /\ Len(E) = 2
       /\ LinesWith(E[2], "id:") = <<"id: 2">>

\* C7: when the example of some type of the list cannot be obtained, that
\* type is still referenced in both oneOf lists and listed in the Event
\* Types block, the transcript has no event for it, and the other types'
\* events are as they would be without it.
C7_SkippedTypeOmitted ==
    pc = "returned" /\ Obtainable /= 1..Len(GivenModels) =>
        /\ \A i \in (1..Len(GivenModels)) \ Obtainable :
             /\ OneOfLists[1][i] = Ref(GivenModels[i])
             /\ OneOfLists[2][i] = Ref(GivenModels[i])
             /\ Contains(Description,
                    "\n- " \o Backquote \o PromisedLabel(GivenModels[i])
                    \o Backquote \o ": ")
        /\ TranscriptIsOf(Obtainable)

\* C8: the call completes whatever event_names mapping is given, and the
\* label of every type is the mapping's label for it if it has one, else
\* the type's name lower-cased.
C8_LabelsResolved ==
    /\ pc /= "raised"
    /\ pc = "returned" =>
         \A i \in 1..Len(GivenModels) :
             StartsWith(event_type_descriptions[i],
                 "- " \o Backquote \o PromisedLabel(GivenModels[i])
                 \o Backquote \o ": ")

\* C9: the two oneOf lists of sse_schema_for's descriptor are equal, have
\* one entry per element of the type list in its order, and the i-th
\* entry's $ref is #/components/schemas/<name of the i-th type>.
C9_OneOfLists ==
    pc = "schema_returned" =>
        LET c == ret[1]["content"]["text/event-stream"]
            item == c["itemSchema"]["oneOf"]
            legacy == c["schema"]["oneOf"]
        IN /\ item = legacy
           /\ Len(item) = Len(args.event_models)
           /\ \A i \in 1..Len(item) :
                /\ DOMAIN item[i] = {"$ref"}
                /\ item[i]["$ref"] =
                     "#/components/schemas/" \o args.event_models[i].name

C9_Witness ==
    /\ pc = "schema_returned"
    /\ Len(args.event_models) = 3
    /\ args.event_models[1] = args.event_models[3]
    /\ args.event_models[1] /= args.event_models[2]
    /\ Len(ret[1]["content"]["text/event-stream"]["schema"]["oneOf"]) = 3

\* C10: the description holds the retry-interval sentence with the
\* configured number of milliseconds exactly when a retry interval is set in
\* the configuration, 0 included.
C10_RetrySentence ==
    pc = "returned" =>
        IF "retry_interval" \in DOMAIN GivenConfig
        THEN Contains(Description,
                 "Client retry interval: "
                 \o ToString(GivenConfig["retry_interval"]) \o "ms")
        ELSE ~Contains(Description, "Client retry interval")

====
